---- MODULE Spec2Model ----
(***************************************************************************)
(* Security & abuse-prevention core of the portfolio application:          *)
(*   - the rate limiting middleware (rateLimit, getClientId,               *)
(*     addRateLimitHeaders, cleanupExpiredEntries),                        *)
(*   - the login, register and photo upload routes with the local file     *)
(*     storage they write to.                                              *)
(* Strings are sequences of one-character strings, so that concatenation,  *)
(* split and trim are computed as the code computes them.  An optional     *)
(* value (undefined / null) is the empty tuple <<>>, a present value v is  *)
(* the one-element tuple <<v>>.                                            *)
(***************************************************************************)
EXTENDS Integers, Sequences, FiniteSets, Bags, TLC

\* ------------------------------------------------------------------ bounds
\* Invocations of the rate limiting middleware in flight at one time.
NInv == 2
\* Route requests served at one time.
NRoute == 2
\* Files the upload directory takes beyond those it starts with.
MaxUploads == 2
\* Advances of the wall clock in one behaviour.
MaxTicks == 2

\* --------------------------------------------------------------- variables
VARIABLES
    clock,           \* Date.now(), in milliseconds
    ticks,           \* how often the clock advanced
    config,          \* the RateLimitConfig the middleware was created with
    rateLimitStore,  \* Map key -> reference of a record object
    heap,            \* the record objects {count, resetTime}, by reference
    inv,             \* the invocations of the middleware, their locals
    windows,         \* per record object: who opened it, what it admitted
    env,             \* process.env: JWT_SECRET set or not, NODE_ENV
    users,           \* the users table, by email
    photos,          \* the portfolio photos table: a bag of rows
    storage,         \* the upload directories: path -> bytes on disk
    rq               \* the route requests being served, their locals

throttleVars == <<config, rateLimitStore, heap, inv, windows>>

routeVars == <<env, users, photos, storage, rq>>

vars == <<clock, ticks, config, rateLimitStore, heap, inv, windows,
          env, users, photos, storage, rq>>

\* ----------------------------------------------------------------- strings
None == <<>>

Some(v) == <<v>>

\* JavaScript truthiness of an optional string: defined and not empty.
Truthy(opt) == opt # None /\ opt[1] # <<>>

\* a || b for optional strings
OrElseNullish(a, b) == IF a # None THEN a ELSE b

OrElse(a, b) == IF Truthy(a) THEN a ELSE b

DigitChars == <<"0", "1", "2", "3", "4", "5", "6", "7", "8", "9">>

RECURSIVE Digits(_)
Digits(n) ==
    IF n < 10 THEN <<DigitChars[n + 1]>>
    ELSE Digits(n \div 10) \o <<DigitChars[(n % 10) + 1]>>

\* String(n) of an integer
String(n) == IF n < 0 THEN <<"-">> \o Digits(-n) ELSE Digits(n)

\* Math.ceil(a / b) for b > 0
MathCeilDivFloor(a, b) == a \div b

MathCeilDiv(a, b) == -((-a) \div b)

\* s.split(',')[0]: the text before the first comma
RECURSIVE SplitFirst(_)
SplitFirst(s) ==
    IF s = <<>> \/ Head(s) = "," THEN <<>>
    ELSE <<Head(s)>> \o SplitFirst(Tail(s))

RECURSIVE TrimStart(_)
TrimStart(s) ==
    IF s # <<>> /\ Head(s) = " " THEN TrimStart(Tail(s)) ELSE s

RECURSIVE TrimEnd(_)
TrimEnd(s) ==
    IF s # <<>> /\ s[Len(s)] = " " THEN TrimEnd(SubSeq(s, 1, Len(s) - 1)) ELSE s

\* s.trim()
Trim(s) == TrimEnd(TrimStart(s))

\* ---------------------------------------------------------------- requests
UserPrefix == <<"u", "s", "e", "r", ":">>

Unknown == <<"u", "n", "k", "n", "o", "w", "n">>

PathA == <<"/", "a">>

\* An authenticated request: getUserId resolves to "u".
ReqUser ==
    [pathname |-> PathA, auth |-> Some(<<"u">>), forwarded |-> None,
     realIp |-> None, cfConnectingIp |-> None]

\* An unauthenticated request whose x-forwarded-for header reads "user:u".
ReqSpoof ==
    [pathname |-> PathA, auth |-> None,
     forwarded |-> Some(UserPrefix \o <<"u">>),
     realIp |-> None, cfConnectingIp |-> None]

\* An unauthenticated request behind two proxies: "1, 2".
ReqIp ==
    [pathname |-> PathA, auth |-> None,
     forwarded |-> Some(<<"1", ",", " ", "2">>),
     realIp |-> Some(<<"9">>), cfConnectingIp |-> None]

Requests == {ReqUser, ReqSpoof, ReqIp}

\* The requests that run concurrently: those of one key.
SameKeyRequests == {ReqUser, ReqSpoof}

NoRequest ==
    [pathname |-> <<>>, auth |-> None, forwarded |-> None,
     realIp |-> None, cfConnectingIp |-> None]

\* --------------------------------------------------------------- getClientId
ForwardedFirst(request) ==
    IF request.forwarded = None THEN None
    ELSE Some(Trim(SplitFirst(request.forwarded[1])))

getClientId(request, userId) ==
    IF Truthy(userId) THEN UserPrefix \o userId[1]
    ELSE OrElse(ForwardedFirst(request),
           OrElse(request.realIp,
             OrElse(request.cfConnectingIp, Some(Unknown))))[1]

\* `${request.nextUrl.pathname}:${clientId}`
KeyOf(request, userId) == request.pathname \o <<":">> \o getClientId(request, userId)

\* ------------------------------------------------------------------ configs
Configs ==
    {[windowMs |-> 500, maxRequests |-> 1],
     [windowMs |-> 1001, maxRequests |-> 3]}

TickSteps == {500}

\* ---------------------------------------------------------------- responses
EmptyHeaders == [n \in {} |-> <<>>]

NoResponse == [status |-> 0, body |-> [none |-> TRUE], headers |-> EmptyHeaders]

\* what the wrapped handler answers
HandlerResponse == [status |-> 200, body |-> [handled |-> TRUE], headers |-> EmptyHeaders]

\* addRateLimitHeaders(response, limit, remaining, resetTime)
addRateLimitHeadersMillis(response, limit, remaining, resetTime) ==
    [response EXCEPT !.headers =
        ("X-RateLimit-Limit" :> String(limit)) @@
        ("X-RateLimit-Remaining" :> String(remaining)) @@
        ("X-RateLimit-Reset" :> String(resetTime)) @@
        response.headers]

addRateLimitHeaders(response, limit, remaining, resetTime) ==
    [response EXCEPT !.headers =
        ("X-RateLimit-Limit" :> String(limit)) @@
        ("X-RateLimit-Remaining" :> String(remaining)) @@
        ("X-RateLimit-Reset" :> String(MathCeilDiv(resetTime, 1000))) @@
        response.headers]

\* the 429 response of a denied request
TooManyRequests(record, now) ==
    LET r == [status |-> 429,
              body |-> [error |-> "Too many requests",
                        message |-> "Rate limit exceeded. Please try again later.",
                        retryAfter |-> MathCeilDiv(record.resetTime - now, 1000)],
              headers |-> EmptyHeaders]
        h == addRateLimitHeaders(r, config.maxRequests, 0, record.resetTime)
    IN  [h EXCEPT !.headers =
            ("Retry-After" :> String(MathCeilDiv(record.resetTime - now, 1000))) @@
            h.headers]

\* ------------------------------------------------------------------- store
\* now > record.resetTime
WindowExpiredAlways(now, record) == TRUE

WindowExpired(now, record) == now > record.resetTime

\* record.count >= config.maxRequests
LimitExceededOffByOne(record) == record.count > config.maxRequests

LimitExceeded(record) == record.count >= config.maxRequests

\* cleanupExpiredEntries(), reading the clock as now
cleanupExpiredEntriesAtReset(now) ==
    [k \in {x \in DOMAIN rateLimitStore : now < heap[rateLimitStore[x]].resetTime}
        |-> rateLimitStore[k]]

cleanupExpiredEntries(now) ==
    [k \in {x \in DOMAIN rateLimitStore :
              ~ WindowExpired(now, heap[rateLimitStore[x]])}
        |-> rateLimitStore[k]]

\* rateLimitStore.get(key): the reference of the record, 0 for undefined
StoreGet(key) == IF key \in DOMAIN rateLimitStore THEN rateLimitStore[key] ELSE 0

\* the store after the optional sweep of one invocation
SweptNever(sweep, lag) == rateLimitStore

Swept(sweep, lag) == IF sweep THEN cleanupExpiredEntries(clock + lag) ELSE rateLimitStore

\* The record objects live on the JavaScript heap: the Map and the local
\* `record` of an invocation hold references, so an increment through one
\* reference is seen through every other.  An object no reference reaches is
\* reclaimed and its place is used again.
Keys == {KeyOf(r, r.auth) : r \in Requests}

Refs == 1 .. (Cardinality(Keys) + 2 * NInv)

Free == [count |-> 0, resetTime |-> 0]

FreeWindow == [pair |-> <<>>, admits |-> <<>>]

\* the reference a new object gets
Alloc == CHOOSE o \in Refs : heap[o] = Free /\ \A q \in Refs : q < o => heap[q] # Free

Roots(st, iv) ==
    {st[k] : k \in DOMAIN st}
      \cup {iv[i].record : i \in DOMAIN iv} \cup {iv[i].window : i \in DOMAIN iv}

Reclaim(h, free, st, iv) == [o \in Refs |-> IF o \in Roots(st, iv) THEN h[o] ELSE free]

\* ------------------------------------------------------------- invocations
Invs == 1 .. NInv

\* The locals of one invocation.  request .. response are the code's; branch
\* names the path taken, window the record object the decision was made on,
\* pair the (endpointPath, client identity) of the request, pre and post the
\* record's count before and after the decision, preReset the resetTime read
\* (-1 without a record), admittedBefore the number of requests the window
\* had admitted before this one.
IdleInv ==
    [pc |-> "idle", request |-> NoRequest, userId |-> None, key |-> <<>>,
     now |-> 0, record |-> 0, branch |-> "none", window |-> 0,
     pair |-> <<>>, pre |-> 0, preReset |-> -1, post |-> 0,
     admittedBefore |-> 0, thrown |-> FALSE, response |-> NoResponse]

InFlight(i) == inv[i].pc \in {"getUserId", "handler"}

\* A response is handed to the caller before anything else happens: the
\* hand-over touches no shared state, so this order loses no behaviour.
NoneDone == \A i \in Invs : inv[i].pc # "done"

\* The (endpointPath, client identity) pair of a request: an authenticated
\* user id and a network-origin address are identities of different kinds.
PairOf(request, userId) ==
    IF Truthy(userId) THEN <<request.pathname, "user", userId[1]>>
    ELSE <<request.pathname, "address", getClientId(request, userId)>>

\* time passes
Tick(d) ==
    /\ NoneDone
    /\ ticks < MaxTicks
    /\ clock' = clock + d
    /\ ticks' = ticks + 1
    /\ UNCHANGED <<config, rateLimitStore, heap, inv, windows>>
    /\ UNCHANGED routeVars

\* The middleware is called: it awaits getUserId(request).  The lowest free
\* place is taken.
Start(i, r) ==
    /\ NoneDone
    /\ inv[i].pc = "idle"
    /\ \A j \in Invs : j < i => InFlight(j)
    /\ inv' = [inv EXCEPT ![i] = [IdleInv EXCEPT !.pc = "getUserId", !.request = r]]
    /\ UNCHANGED <<clock, ticks, config, rateLimitStore, heap, windows>>
    /\ UNCHANGED routeVars

\* The clock may advance between Date.now() of the middleware and
\* Date.now() of cleanupExpiredEntries, which runs only on a sweep.
SweepLag(sweep, lag) ==
    /\ IF lag = 0 THEN TRUE ELSE sweep /\ ticks < MaxTicks
    /\ clock' = clock + lag
    /\ ticks' = ticks + lag

\* the locals every branch of the limit check sets
Decided(i, key, record, branch, window) ==
    [inv[i] EXCEPT
        !.userId = inv[i].request.auth,
        !.key = key,
        !.now = clock,
        !.record = record,
        !.branch = branch,
        !.window = window,
        !.pair = PairOf(inv[i].request, inv[i].request.auth),
        !.pre = IF record = 0 THEN 0 ELSE heap[record].count,
        !.preReset = IF record = 0 THEN -1 ELSE heap[record].resetTime,
        !.admittedBefore =
            IF branch = "new" THEN 0 ELSE Len(windows[window].admits)]

\* getUserId resolved; no record or an expired one: a new record is stored
\* and the handler is awaited.
NewWindow(i, sweep, lag) ==
    LET userId == inv[i].request.auth
        key == KeyOf(inv[i].request, userId)
        now == clock
        record == StoreGet(key)
        ref == Alloc
    IN  /\ NoneDone
        /\ inv[i].pc = "getUserId"
        /\ SweepLag(sweep, lag)
        /\ IF record = 0 THEN TRUE ELSE WindowExpired(now, heap[record])
        /\ rateLimitStore' = (key :> ref) @@ Swept(sweep, lag)
        /\ inv' = [inv EXCEPT ![i] =
                     [Decided(i, key, record, "new", ref) EXCEPT
                        !.pc = "handler", !.post = 1]]
        /\ heap' = Reclaim(
                     [heap EXCEPT ![ref] =
                        [count |-> 1, resetTime |-> now + config.windowMs]],
                     Free, rateLimitStore', inv')
        /\ windows' = Reclaim(
                        [windows EXCEPT ![ref] =
                           [pair |-> PairOf(inv[i].request, userId),
                            admits |-> <<0>>]],
                        FreeWindow, rateLimitStore', inv')
        /\ UNCHANGED config
        /\ UNCHANGED routeVars

\* getUserId resolved; the record is current and full: 429.
DenyConsumingSlot(i, sweep, lag) ==
    LET userId == inv[i].request.auth
        key == KeyOf(inv[i].request, userId)
        now == clock
        record == StoreGet(key)
    IN  /\ NoneDone
        /\ inv[i].pc = "getUserId"
        /\ SweepLag(sweep, lag)
        /\ record # 0
        /\ ~ WindowExpired(now, heap[record])
        /\ LimitExceeded(heap[record])
        /\ rateLimitStore' = Swept(sweep, lag)
        /\ inv' = [inv EXCEPT ![i] =
                     [Decided(i, key, record, "deny", record) EXCEPT
                        !.pc = "done", !.post = heap[record].count,
                        !.response = TooManyRequests(heap[record], now)]]
        /\ heap' = Reclaim([heap EXCEPT ![record].count = @ + 1],
                           Free, rateLimitStore', inv')
        /\ windows' = Reclaim(windows, FreeWindow, rateLimitStore', inv')
        /\ UNCHANGED config
        /\ UNCHANGED routeVars

Deny(i, sweep, lag) ==
    LET userId == inv[i].request.auth
        key == KeyOf(inv[i].request, userId)
        now == clock
        record == StoreGet(key)
    IN  /\ NoneDone
        /\ inv[i].pc = "getUserId"
        /\ SweepLag(sweep, lag)
        /\ record # 0
        /\ ~ WindowExpired(now, heap[record])
        /\ LimitExceeded(heap[record])
        /\ rateLimitStore' = Swept(sweep, lag)
        /\ inv' = [inv EXCEPT ![i] =
                     [Decided(i, key, record, "deny", record) EXCEPT
                        !.pc = "done", !.post = heap[record].count,
                        !.response = TooManyRequests(heap[record], now)]]
        /\ heap' = Reclaim(heap, Free, rateLimitStore', inv')
        /\ windows' = Reclaim(windows, FreeWindow, rateLimitStore', inv')
        /\ UNCHANGED config
        /\ UNCHANGED routeVars

\* getUserId resolved; the record is current and not full: record.count++,
\* the record is stored again and the handler is awaited.
Increment(i, sweep, lag) ==
    LET userId == inv[i].request.auth
        key == KeyOf(inv[i].request, userId)
        now == clock
        record == StoreGet(key)
    IN  /\ NoneDone
        /\ inv[i].pc = "getUserId"
        /\ SweepLag(sweep, lag)
        /\ record # 0
        /\ ~ WindowExpired(now, heap[record])
        /\ ~ LimitExceeded(heap[record])
        /\ rateLimitStore' = (key :> record) @@ Swept(sweep, lag)
        /\ inv' = [inv EXCEPT ![i] =
                     [Decided(i, key, record, "incr", record) EXCEPT
                        !.pc = "handler", !.post = heap[record].count + 1]]
        /\ heap' = Reclaim([heap EXCEPT ![record].count = @ + 1],
                           Free, rateLimitStore', inv')
        /\ windows' = Reclaim(
                        [windows EXCEPT ![record].admits =
                           Append(@, heap[record].count)],
                        FreeWindow, rateLimitStore', inv')
        /\ UNCHANGED config
        /\ UNCHANGED routeVars

\* remaining as the code computes it once the handler has resolved:
\* record.count is read from the record object after the await
Remaining(i) ==
    IF inv[i].branch = "new" THEN config.maxRequests - 1
    ELSE config.maxRequests - heap[inv[i].record].count

\* resetTime handed to addRateLimitHeaders once the handler has resolved
ResetTimeOf(i) ==
    IF inv[i].branch = "new" THEN inv[i].now + config.windowMs
    ELSE heap[inv[i].record].resetTime

\* The handler resolved: the headers are added to its response.
HandlerReturn(i) ==
    /\ NoneDone
    /\ inv[i].pc = "handler"
    /\ inv' = [inv EXCEPT ![i] =
                 [@ EXCEPT !.pc = "done",
                           !.response = addRateLimitHeaders(HandlerResponse,
                                            config.maxRequests, Remaining(i),
                                            ResetTimeOf(i))]]
    /\ UNCHANGED <<clock, ticks, config, rateLimitStore, heap, windows>>
    /\ UNCHANGED routeVars

\* The handler rejected: the rejection propagates, no header is added.
HandlerThrowRollingBack(i) ==
    /\ NoneDone
    /\ inv[i].pc = "handler"
    /\ inv' = [inv EXCEPT ![i] = [@ EXCEPT !.pc = "done", !.thrown = TRUE]]
    /\ heap' = [heap EXCEPT ![inv[i].window].count = @ - 1]
    /\ UNCHANGED <<clock, ticks, config, rateLimitStore, windows>>
    /\ UNCHANGED routeVars

HandlerThrow(i) ==
    /\ NoneDone
    /\ inv[i].pc = "handler"
    /\ inv' = [inv EXCEPT ![i] = [@ EXCEPT !.pc = "done", !.thrown = TRUE]]
    /\ UNCHANGED <<clock, ticks, config, rateLimitStore, heap, windows>>
    /\ UNCHANGED routeVars

\* The caller has the response (or the rejection): the invocation is over.
Return(i) ==
    /\ inv[i].pc = "done"
    /\ inv' = [inv EXCEPT ![i] = IdleInv]
    /\ heap' = Reclaim(heap, Free, rateLimitStore, inv')
    /\ windows' = Reclaim(windows, FreeWindow, rateLimitStore, inv')
    /\ UNCHANGED <<clock, ticks, config, rateLimitStore>>
    /\ UNCHANGED routeVars

Next ==
    \/ \E d \in TickSteps : Tick(d)
    \/ \E i \in Invs, r \in SameKeyRequests : Start(i, r)
    \/ \E i \in Invs, sweep \in BOOLEAN, lag \in {0, 1} : NewWindow(i, sweep, lag)
    \/ \E i \in Invs, sweep \in BOOLEAN, lag \in {0, 1} : Deny(i, sweep, lag)
    \/ \E i \in Invs, sweep \in BOOLEAN, lag \in {0, 1} : Increment(i, sweep, lag)
    \/ \E i \in Invs : HandlerReturn(i)
    \/ \E i \in Invs : HandlerThrow(i)
    \/ \E i \in Invs : Return(i)

\* Requests processed one after another: the middleware is called again
\* only when the invocation before it is over.
StartSeq(i, r) ==
    /\ \A j \in Invs : ~ InFlight(j)
    /\ Start(i, r)

NextSeq ==
    \/ \E d \in TickSteps : Tick(d)
    \/ \E i \in Invs, r \in Requests : StartSeq(i, r)
    \/ \E i \in Invs, sweep \in BOOLEAN, lag \in {0, 1} : NewWindow(i, sweep, lag)
    \/ \E i \in Invs, sweep \in BOOLEAN, lag \in {0, 1} : Deny(i, sweep, lag)
    \/ \E i \in Invs, sweep \in BOOLEAN, lag \in {0, 1} : Increment(i, sweep, lag)
    \/ \E i \in Invs : HandlerReturn(i)
    \/ \E i \in Invs : HandlerThrow(i)
    \/ \E i \in Invs : Return(i)

\* ================================================================== routes
\* The route handlers POST /api/auth/login, POST /api/auth/register and
\* POST /api/upload/photo, the tables they use and the upload directory.
\* The database services, the token functions and the password functions
\* are collaborators of the routes.

\* ------------------------------------------------------------------ inputs
EmailA == <<"a", "@", "b", ".", "c">>

EmailD == <<"d", "@", "b", ".", "c">>

EmailO == <<"o", "@", "b", ".", "c">>

EmailN == <<"n", "@", "b", ".", "c">>

EmailBad == <<"n", "@", "b">>

PwGood == <<"p", "a", "s", "s", "1">>

PwWrong == <<"w", "r", "o", "n", "g">>

PwShort == <<"a", "b", "c", "d">>

\* request.json() of a login request
LoginBodies ==
    {[email |-> e, password |-> p] :
        e \in {None, Some(EmailA), Some(EmailD)},
        p \in {None, Some(PwGood), Some(PwWrong)}} \cup
    {[email |-> Some(e), password |-> Some(PwGood)] : e \in {EmailO, EmailN}}

\* request.json() of a register request
RegisterBodies ==
    {[email |-> e, password |-> p, name |-> None] :
        e \in {None, Some(EmailA), Some(EmailN), Some(EmailBad)},
        p \in {None, Some(PwGood), Some(PwShort)}}

\* ------------------------------------------------------------------ tokens
\* A token: its claims, whether its signature verifies under JWT_SECRET and
\* whether its expiry has passed.
Token(type, sub, signed, expired) ==
    [type |-> type, sub |-> sub, signed |-> signed, expired |-> expired]

\* createAccessToken(user.id, user.email, user.role)
createAccessToken(id, email, role) == Token("access", id, TRUE, FALSE)

\* createRefreshToken(user.id)
createRefreshToken(id) == Token("refresh", id, TRUE, FALSE)

\* verifyAccessToken(token): the user id, or null
verifyAccessTokenAnyType(token) ==
    IF token.signed /\ ~ token.expired THEN Some(token.sub) ELSE None

verifyAccessToken(token) ==
    IF token.signed /\ ~ token.expired /\ token.type = "access"
    THEN Some(token.sub) ELSE None

\* verifyRefreshToken(token): the user id, or null
verifyRefreshToken(token) ==
    IF token.signed /\ ~ token.expired /\ token.type = "refresh"
    THEN Some(token.sub) ELSE None

\* request.cookies.get('accessToken')?.value of an upload request
AccessCookies ==
    {None,
     Some(Token("access", <<"a">>, TRUE, FALSE)),
     Some(Token("refresh", <<"a">>, TRUE, FALSE)),
     Some(Token("access", <<"a">>, TRUE, TRUE)),
     Some(Token("access", <<"a">>, FALSE, FALSE))}

\* --------------------------------------------------------------- passwords
\* hashPassword(password): a salted hash, opaque but for what it verifies
hashPassword(password, salt) == [of |-> password, salt |-> salt]

\* verifyPassword(password, passwordHash)
verifyPassword(password, passwordHash) == passwordHash.of = password

Salts == {1, 2}

\* ------------------------------------------------------------------- users
User(id, email, hash, active) ==
    [id |-> id, email |-> email, name |-> None, passwordHash |-> hash,
     role |-> "user", isActive |-> active, emailVerified |-> FALSE,
     lastLoginAt |-> -1]

InitialUsers ==
    (EmailA :> User(<<"a">>, EmailA, Some(hashPassword(PwGood, 1)), TRUE)) @@
    (EmailD :> User(<<"d">>, EmailD, Some(hashPassword(PwGood, 1)), FALSE)) @@
    (EmailO :> User(<<"o">>, EmailO, None, TRUE))

\* findUserByEmail(email): the user, or null
findUserByEmail(email) ==
    IF email \in DOMAIN users THEN Some(users[email]) ELSE None

\* the id createUser gives the new user
NewUserId(email) == <<Head(email)>>

\* ------------------------------------------------------------------ photos
ALLOWED_TYPES == {"image/jpeg", "image/png", "image/webp"}

MAX_FILE_SIZE == 5 * 1024 * 1024

\* photos a user may own
MaxPhotos == 3

PhotoBytes == <<255, 216, 255>>

FileNamePng == <<"m", "e", ".", "p", "n", "g">>

FileNameBare == <<"m", "e">>

\* formData.get('photo')
PhotoFiles ==
    {None} \cup
    {Some([name |-> FileNamePng, type |-> t, size |-> z, bytes |-> PhotoBytes]) :
        t \in {"image/jpeg", "image/png", "image/gif"},
        z \in {MAX_FILE_SIZE, MAX_FILE_SIZE + 1}} \cup
    {Some([name |-> FileNameBare, type |-> "image/webp", size |-> z,
           bytes |-> PhotoBytes]) :
        z \in {1024, 12 * 1024 * 1024}}

PhotosOf(userId) ==
    [p \in {q \in BagToSet(photos) : q.userId = userId} |-> photos[p]]

\* canUploadMorePhotos(userId)
canUploadMorePhotos(userId) == BagCardinality(PhotosOf(userId)) < MaxPhotos

\* !ALLOWED_TYPES.includes(file.type)
\* if (!canUpload)
QuotaRejectedNever(canUpload) == FALSE

QuotaRejected(canUpload) == ~ canUpload

TypeRejected(file) == file.type \notin ALLOWED_TYPES

\* file.size > MAX_FILE_SIZE
FileTooLargeResumeLimit(file) == file.size > 10 * 1024 * 1024

FileTooLarge(file) == file.size > MAX_FILE_SIZE

\* ----------------------------------------------------------------- storage
RECURSIVE LastIndexOf(_, _)
LastIndexOf(s, c) ==
    IF s = <<>> THEN 0
    ELSE IF s[Len(s)] = c THEN Len(s)
    ELSE LastIndexOf(SubSeq(s, 1, Len(s) - 1), c)

\* path.basename and path.extname skip the separators a path ends with
RECURSIVE TrimSlashes(_)
TrimSlashes(p) ==
    IF p # <<>> /\ p[Len(p)] = "/" THEN TrimSlashes(SubSeq(p, 1, Len(p) - 1)) ELSE p

\* path.basename(p) without a suffix argument: the last path segment
BaseName(p) ==
    LET q == TrimSlashes(p) IN SubSeq(q, LastIndexOf(q, "/") + 1, Len(q))

\* path.extname(fileName): from the last dot of the last path segment,
\* empty when there is none, when the segment starts with it or when the
\* segment is ".."
ExtNameWholeName(fileName) == fileName

ExtName(fileName) ==
    LET base == BaseName(fileName)
        dot == LastIndexOf(base, ".")
    IN  IF dot <= 1 \/ base = <<".", ".">> THEN <<>> ELSE SubSeq(base, dot, Len(base))

\* crypto.randomBytes(8).toString('hex'), cut to two digits
RandomIds == {<<"0", "0">>, <<"f", "f">>}

\* `${userId}_${timestamp}_${randomId}${extension}`
UniqueFileName(fileName, userId, timestamp, randomId) ==
    userId \o <<"_">> \o String(timestamp) \o <<"_">> \o randomId \o ExtName(fileName)

TypeDir(type) == IF type = "resume" THEN "resumes" ELSE "photos"

\* The file path and the public URL name the same place: the directory of
\* the kind and the unique file name in it.
PublicUrl(type, uniqueFileName) == [typeDir |-> TypeDir(type), file |-> uniqueFileName]

\* what fs.writeFile(filePath, fileBuffer) leaves on disk
Written(fileBuffer) == fileBuffer

\* the photos a user starts with, each with its file
InitialPhoto(n) ==
    [userId |-> <<"a">>,
     photoUrl |-> PublicUrl("photo", <<"a", "_", "o", "l", "d">> \o String(n))]

InitialPhotos(k) == SetToBag({InitialPhoto(n) : n \in 1 .. k})

InitialStorage(k) ==
    [u \in {InitialPhoto(n).photoUrl : n \in 1 .. k} |-> PhotoBytes]

\* ---------------------------------------------------------------- requests
RReqs == 1 .. NRoute

NoRouteResponse == [status |-> 0, body |-> [none |-> TRUE], cookies |-> {}]

\* NextResponse.json(body, {status})
Json(body, status) == [status |-> status, body |-> body, cookies |-> {}]

ErrorJson(error, status) == Json([error |-> error], status)

\* response.cookies.set(name, value, {httpOnly, secure, sameSite, maxAge, path})
CookieAlwaysSecure(name, value, maxAge) ==
    [name |-> name, value |-> value, httpOnly |-> TRUE,
     secure |-> TRUE, sameSite |-> "lax",
     maxAge |-> maxAge, path |-> "/"]

Cookie(name, value, maxAge) ==
    [name |-> name, value |-> value, httpOnly |-> TRUE,
     secure |-> (env.NODE_ENV = "production"), sameSite |-> "lax",
     maxAge |-> maxAge, path |-> "/"]

WithTokenCookies(response, accessToken, refreshToken) ==
    [response EXCEPT !.cookies =
        {Cookie("accessToken", accessToken, 3600),
         Cookie("refreshToken", refreshToken, 604800)}]

\* the user object of a success response
UserViewWholeRecord(user) == user

UserView(user) ==
    [id |-> user.id, email |-> user.email, name |-> user.name,
     emailVerified |-> user.emailVerified]

\* The locals of one route request.  calls lists the collaborators called,
\* in order.
IdleRq ==
    [pc |-> "idle", route |-> "none", body |-> [email |-> None, password |-> None],
     cookie |-> None, user |-> None, userId |-> None, canUpload |-> FALSE,
     passwordHash |-> None, file |-> None, fileBuffer |-> <<>>,
     publicUrl |-> None, calls |-> <<>>, response |-> NoRouteResponse]

Serving(r) == rq[r].pc \notin {"idle", "done"}

\* A response is handed to the client before anything else happens.
NoneAnswered == \A r \in RReqs : rq[r].pc # "done"

Begin(r) ==
    /\ NoneAnswered
    /\ rq[r].pc = "idle"
    /\ \A q \in RReqs : q < r => Serving(q)

\* return NextResponse.json(..., {status: 500}) of the catch block
InternalError == ErrorJson("Internal server error", 500)

ConfigError == ErrorJson("Server configuration error. Please contact administrator.", 500)

\* return NextResponse...: the request is answered
AnswerWith(me, response) == [me EXCEPT !.pc = "done", !.response = response]

\* the next await: collaborator `name` is called
Await(me, name) == [me EXCEPT !.pc = name, !.calls = @ \o <<name>>]

At(r, route, pc) == NoneAnswered /\ rq[r].route = route /\ rq[r].pc = pc

\* ------------------------------------------------------------------- login
\* body read, validation, JWT_SECRET check, findUserByEmail called
LoginStart(r, body) ==
    LET me == [IdleRq EXCEPT !.route = "login", !.body = body]
    IN  /\ Begin(r)
        /\ rq' = [rq EXCEPT ![r] =
              IF ~ Truthy(body.email) \/ ~ Truthy(body.password)
              THEN AnswerWith(me, ErrorJson("Email and password are required", 400))
              ELSE IF ~ env.JWT_SECRET
              THEN AnswerWith(me, ConfigError)
              ELSE Await(me, "findUserByEmail")]
        /\ UNCHANGED <<clock, ticks, throttleVars, env, users, photos, storage>>

\* findUserByEmail resolved (or rejected), verifyPassword called
LoginFindUser(r, ok) ==
    LET me == rq[r]
        user == findUserByEmail(me.body.email[1])
    IN  /\ At(r, "login", "findUserByEmail")
        /\ rq' = [rq EXCEPT ![r] =
              IF ~ ok THEN AnswerWith(me, InternalError)
              ELSE IF user = None
              THEN AnswerWith(me, ErrorJson("Invalid credentials", 401))
              ELSE IF user[1].passwordHash = None
              THEN AnswerWith(me, ErrorJson("Invalid credentials", 401))
              ELSE Await([me EXCEPT !.user = user], "verifyPassword")]
        /\ UNCHANGED <<clock, ticks, throttleVars, env, users, photos, storage>>

\* if (!user.isActive)
AccountDeactivatedNever(user) == FALSE

AccountDeactivated(user) == ~ user.isActive

\* verifyPassword resolved, active check, tokens created,
\* updateUserLastLogin called
LoginVerifyPassword(r) ==
    LET me == rq[r]
        user == me.user[1]
        isValidPassword == verifyPassword(me.body.password[1], user.passwordHash[1])
    IN  /\ At(r, "login", "verifyPassword")
        /\ rq' = [rq EXCEPT ![r] =
              IF ~ isValidPassword
              THEN AnswerWith(me, ErrorJson("Invalid credentials", 401))
              ELSE IF AccountDeactivated(user)
              THEN AnswerWith(me, ErrorJson("Account is deactivated", 403))
              ELSE Await([me EXCEPT !.calls =
                             @ \o <<"createAccessToken", "createRefreshToken">>],
                         "updateUserLastLogin")]
        /\ UNCHANGED <<clock, ticks, throttleVars, env, users, photos, storage>>

\* updateUserLastLogin resolved (or rejected): 200 with the two cookies
LoginFinish(r, ok) ==
    LET me == rq[r]
        user == me.user[1]
    IN  /\ At(r, "login", "updateUserLastLogin")
        /\ users' = IF ok /\ user.email \in DOMAIN users
                    THEN [users EXCEPT ![user.email].lastLoginAt = clock]
                    ELSE users
        /\ rq' = [rq EXCEPT ![r] =
              IF ~ ok THEN AnswerWith(me, InternalError)
              ELSE AnswerWith(me,
                     WithTokenCookies(
                        Json([message |-> "Login successful", user |-> UserView(user)], 200),
                        createAccessToken(user.id, user.email, user.role),
                        createRefreshToken(user.id)))]
        /\ UNCHANGED <<clock, ticks, throttleVars, env, photos, storage>>

\* ---------------------------------------------------------------- register
Whitespace == {" "}

\* /^[^\s@]+@[^\s@]+\.[^\s@]+$/.test(email)
EmailFormatValid(email) ==
    LET ats == {n \in 1 .. Len(email) : email[n] = "@"}
    IN  /\ \A n \in 1 .. Len(email) : email[n] \notin Whitespace
        /\ Cardinality(ats) = 1
        /\ \E at \in ats :
              /\ at >= 2
              /\ \E dot \in (at + 2) .. (Len(email) - 1) : email[dot] = "."

\* body.password.length < 5
PasswordTooShort(password) == Len(password) < 5

\* body read, validation, JWT_SECRET check, format checks,
\* findUserByEmail called
RegisterStart(r, body) ==
    LET me == [IdleRq EXCEPT !.route = "register", !.body = body]
    IN  /\ Begin(r)
        /\ rq' = [rq EXCEPT ![r] =
              IF ~ Truthy(body.email) \/ ~ Truthy(body.password)
              THEN AnswerWith(me, ErrorJson("Email and password are required", 400))
              ELSE IF ~ env.JWT_SECRET
              THEN AnswerWith(me, ConfigError)
              ELSE IF ~ EmailFormatValid(body.email[1])
              THEN AnswerWith(me, ErrorJson("Invalid email format", 400))
              ELSE IF PasswordTooShort(body.password[1])
              THEN AnswerWith(me, ErrorJson("Password must be at least 5 characters", 400))
              ELSE Await(me, "findUserByEmail")]
        /\ UNCHANGED <<clock, ticks, throttleVars, env, users, photos, storage>>

\* findUserByEmail resolved (or rejected), hashPassword called
RegisterFindUser(r, ok) ==
    LET me == rq[r]
        existingUser == findUserByEmail(me.body.email[1])
    IN  /\ At(r, "register", "findUserByEmail")
        /\ rq' = [rq EXCEPT ![r] =
              IF ~ ok THEN AnswerWith(me, InternalError)
              ELSE IF existingUser # None
              THEN AnswerWith(me, ErrorJson("User already exists", 409))
              ELSE Await(me, "hashPassword")]
        /\ UNCHANGED <<clock, ticks, throttleVars, env, users, photos, storage>>

\* hashPassword resolved, createUser called
RegisterHashPassword(r, salt) ==
    LET me == rq[r]
    IN  /\ At(r, "register", "hashPassword")
        /\ rq' = [rq EXCEPT ![r] =
              Await([me EXCEPT !.passwordHash =
                        Some(hashPassword(me.body.password[1], salt))],
                    "createUser")]
        /\ UNCHANGED <<clock, ticks, throttleVars, env, users, photos, storage>>

\* createUser resolved, or rejected (the email column is UNIQUE): tokens
\* created, 201 with the two cookies
RegisterCreateUser(r, ok) ==
    LET me == rq[r]
        email == me.body.email[1]
        created == ok /\ email \notin DOMAIN users
        user == [User(NewUserId(email), email, me.passwordHash, TRUE)
                    EXCEPT !.name = me.body.name]
    IN  /\ At(r, "register", "createUser")
        /\ users' = IF created THEN (email :> user) @@ users ELSE users
        /\ rq' = [rq EXCEPT ![r] =
              IF ~ created THEN AnswerWith(me, InternalError)
              ELSE AnswerWith(
                     [me EXCEPT !.user = Some(user), !.calls =
                         @ \o <<"createAccessToken", "createRefreshToken">>],
                     WithTokenCookies(
                        Json([message |-> "User registered successfully.",
                              user |-> UserView(user)], 201),
                        createAccessToken(user.id, user.email, user.role),
                        createRefreshToken(user.id)))]
        /\ UNCHANGED <<clock, ticks, throttleVars, env, photos, storage>>

\* ------------------------------------------------------------ photo upload
\* cookie read, verifyAccessToken, canUploadMorePhotos called
PhotoStart(r, cookie) ==
    LET me == [IdleRq EXCEPT !.route = "photo", !.cookie = cookie]
        checked == [me EXCEPT !.calls = <<"verifyAccessToken">>]
        userId == verifyAccessToken(cookie[1])
    IN  /\ Begin(r)
        /\ rq' = [rq EXCEPT ![r] =
              IF cookie = None
              THEN AnswerWith(me, ErrorJson("Authentication required", 401))
              ELSE IF ~ Truthy(userId)
              THEN AnswerWith(checked, ErrorJson("Invalid or expired token", 401))
              ELSE Await([checked EXCEPT !.userId = userId], "canUploadMorePhotos")]
        /\ UNCHANGED <<clock, ticks, throttleVars, env, users, photos, storage>>

\* canUploadMorePhotos resolved (or rejected), request.formData() called
PhotoCanUpload(r, ok) ==
    LET me == rq[r]
        canUpload == canUploadMorePhotos(me.userId[1])
    IN  /\ At(r, "photo", "canUploadMorePhotos")
        /\ rq' = [rq EXCEPT ![r] =
              IF ~ ok THEN AnswerWith(me, InternalError)
              ELSE IF QuotaRejected(canUpload)
              THEN AnswerWith(me, ErrorJson(
                     "Maximum photo limit reached. Users can upload up to 3 photos.", 403))
              ELSE [me EXCEPT !.pc = "formData", !.canUpload = canUpload]]
        /\ UNCHANGED <<clock, ticks, throttleVars, env, users, photos, storage>>

\* form data parsed, file checks, file.arrayBuffer() read into fileBuffer,
\* uploadFileLocally called
PhotoFormData(r, file) ==
    LET me == rq[r]
    IN  /\ At(r, "photo", "formData")
        /\ rq' = [rq EXCEPT ![r] =
              IF file = None
              THEN AnswerWith(me, ErrorJson("No file uploaded", 400))
              ELSE IF TypeRejected(file[1])
              THEN AnswerWith([me EXCEPT !.file = file],
                     ErrorJson("Invalid file type. Allowed: JPEG, PNG, WebP", 400))
              ELSE IF FileTooLarge(file[1])
              THEN AnswerWith([me EXCEPT !.file = file],
                     ErrorJson("File too large. Maximum size: 5MB", 400))
              ELSE Await([me EXCEPT !.file = file, !.fileBuffer = file[1].bytes],
                         "uploadFileLocally")]
        /\ UNCHANGED <<clock, ticks, throttleVars, env, users, photos, storage>>

\* uploadFileLocally(fileBuffer, file.name, userId, 'photo') resolved (or
\* rejected before the write), createPortfolioPhoto called
PhotoUploadFile(r, randomId, ok) ==
    LET me == rq[r]
        timestamp == clock
        uniqueFileName == UniqueFileName(me.file[1].name, me.userId[1], timestamp, randomId)
        publicUrl == PublicUrl("photo", uniqueFileName)
    IN  /\ At(r, "photo", "uploadFileLocally")
        /\ Cardinality(DOMAIN storage \ DOMAIN InitialStorage(MaxPhotos)) < MaxUploads
        /\ storage' = IF ok THEN (publicUrl :> Written(me.fileBuffer)) @@ storage
                      ELSE storage
        /\ rq' = [rq EXCEPT ![r] =
              IF ~ ok THEN AnswerWith(me, InternalError)
              ELSE Await([me EXCEPT !.publicUrl = Some(publicUrl),
                                    !.calls = @ \o <<"writeFile">>],
                         "createPortfolioPhoto")]
        /\ UNCHANGED <<clock, ticks, throttleVars, env, users, photos>>

\* createPortfolioPhoto resolved (or rejected): 201
PhotoCreateRecord(r, ok) ==
    LET me == rq[r]
        photo == [userId |-> me.userId[1], photoUrl |-> me.publicUrl[1]]
    IN  /\ At(r, "photo", "createPortfolioPhoto")
        /\ photos' = IF ok THEN photos (+) SetToBag({photo}) ELSE photos
        /\ rq' = [rq EXCEPT ![r] =
              IF ~ ok THEN AnswerWith(me, InternalError)
              ELSE AnswerWith(me,
                     Json([message |-> "Photo uploaded successfully",
                           photo |-> [id |-> BagCardinality(photos) + 1,
                                      fileName |-> me.file[1].name,
                                      publicUrl |-> photo.photoUrl]], 201))]
        /\ UNCHANGED <<clock, ticks, throttleVars, env, users, storage>>

\* The client has the response: the request is over.
RouteReturn(r) ==
    /\ rq[r].pc = "done"
    /\ rq' = [rq EXCEPT ![r] = IdleRq]
    /\ UNCHANGED <<clock, ticks, throttleVars, env, users, photos, storage>>

NextAuth ==
    \/ \E r \in RReqs, body \in LoginBodies : LoginStart(r, body)
    \/ \E r \in RReqs, ok \in BOOLEAN : LoginFindUser(r, ok)
    \/ \E r \in RReqs : LoginVerifyPassword(r)
    \/ \E r \in RReqs, ok \in BOOLEAN : LoginFinish(r, ok)
    \/ \E r \in RReqs, body \in RegisterBodies : RegisterStart(r, body)
    \/ \E r \in RReqs, ok \in BOOLEAN : RegisterFindUser(r, ok)
    \/ \E r \in RReqs, salt \in Salts : RegisterHashPassword(r, salt)
    \/ \E r \in RReqs, ok \in BOOLEAN : RegisterCreateUser(r, ok)
    \/ \E r \in RReqs : RouteReturn(r)

NextPhoto ==
    \/ \E r \in RReqs, cookie \in AccessCookies : PhotoStart(r, cookie)
    \/ \E r \in RReqs, ok \in BOOLEAN : PhotoCanUpload(r, ok)
    \/ \E r \in RReqs, file \in PhotoFiles : PhotoFormData(r, file)
    \/ \E r \in RReqs, randomId \in RandomIds, ok \in BOOLEAN : PhotoUploadFile(r, randomId, ok)
    \/ \E r \in RReqs, ok \in BOOLEAN : PhotoCreateRecord(r, ok)
    \/ \E r \in RReqs : RouteReturn(r)

\* ---------------------------------------------------------- specifications
ThrottleIdle ==
    /\ clock = 0
    /\ ticks = 0
    /\ rateLimitStore = [k \in {} |-> 0]
    /\ heap = [o \in Refs |-> Free]
    /\ inv = [i \in Invs |-> IdleInv]
    /\ windows = [o \in Refs |-> FreeWindow]

Envs == [JWT_SECRET : BOOLEAN, NODE_ENV : {"production", "development"}]

RoutesIdle ==
    /\ users = InitialUsers
    /\ rq = [r \in RReqs |-> IdleRq]

\* the rate limiting middleware, serving requests of its own
Init ==
    /\ ThrottleIdle
    /\ config \in Configs
    /\ RoutesIdle
    /\ env = [JWT_SECRET |-> TRUE, NODE_ENV |-> "production"]
    /\ photos = InitialPhotos(0)
    /\ storage = InitialStorage(0)

Spec == Init /\ [][Next]_vars

SpecSeq == Init /\ [][NextSeq]_vars

\* the login and register routes as they are exported
InitAuth ==
    /\ ThrottleIdle
    /\ config = [windowMs |-> 500, maxRequests |-> 1]
    /\ RoutesIdle
    /\ env \in Envs
    /\ photos = InitialPhotos(0)
    /\ storage = InitialStorage(0)

SpecAuth == InitAuth /\ [][NextAuth]_vars

\* photos the owner has when the first request arrives
InitialCounts == {0, MaxPhotos - 1, MaxPhotos}

\* the photo upload route as it is exported
InitPhoto ==
    /\ ThrottleIdle
    /\ config = [windowMs |-> 500, maxRequests |-> 1]
    /\ RoutesIdle
    /\ env = [JWT_SECRET |-> TRUE, NODE_ENV |-> "production"]
    /\ \E k \in InitialCounts :
          /\ photos = InitialPhotos(k)
          /\ storage = InitialStorage(k)

SpecPhoto == InitPhoto /\ [][NextPhoto]_vars

\* ------------------------------------------------------- reading responses
\* the number a client reads from a header value
DigitValue(c) == CHOOSE d \in 0 .. 9 : DigitChars[d + 1] = c

RECURSIVE ParseDigits(_)
ParseDigits(s) ==
    IF s = <<>> THEN 0
    ELSE 10 * ParseDigits(SubSeq(s, 1, Len(s) - 1)) + DigitValue(s[Len(s)])

Number(s) == IF Head(s) = "-" THEN - ParseDigits(Tail(s)) ELSE ParseDigits(s)

HasDecided(i) == inv[i].branch # "none"

Allowed(i) == inv[i].branch \in {"new", "incr"}

Denied(i) == inv[i].pc = "done" /\ inv[i].branch = "deny"

Answered(i) == inv[i].pc = "done" /\ Allowed(i) /\ ~ inv[i].thrown

\* ------------------------------------------------------------------ claims

\* C1: with requests processed one after another, the requests that fall
\* inside a window are allowed while the window has admitted fewer than
\* maxRequests requests and denied from then on, so no window admits more
\* than maxRequests requests.
C1_FirstMaxAllowedRestDenied ==
    /\ \A o \in Refs : Len(windows[o].admits) <= config.maxRequests
    /\ \A i \in Invs :
         HasDecided(i) =>
            (Allowed(i) <=> inv[i].admittedBefore < config.maxRequests)

C1_Witness ==
    \E i \in Invs :
       /\ Denied(i)
       /\ config.maxRequests = 3
       /\ inv[i].admittedBefore = 3

\* C2: under every interleaving of invocations on one key, a window never
\* admits more than maxRequests invocations and no two admitted invocations
\* were decided on the same pre-increment count.
C2_AtomicCheckAndIncrement ==
    \A o \in Refs :
       LET a == windows[o].admits
       IN  /\ Len(a) <= config.maxRequests
           /\ \A m, n \in 1 .. Len(a) : m # n => a[m] # a[n]

C2_Witness ==
    \E i, j \in Invs :
       /\ i # j
       /\ inv[i].pc = "handler" /\ inv[j].pc = "handler"
       /\ inv[i].window = inv[j].window
       /\ inv[i].pair # inv[j].pair

\* C3: a request arriving at now >= resetTime of the stored record is
\* allowed and replaces the record by {count: 1, resetTime: now + windowMs}.
C3_ExpiredRecordReplaced ==
    \A i \in Invs :
       (HasDecided(i) /\ inv[i].record # 0 /\ inv[i].now >= inv[i].preReset) =>
          /\ inv[i].branch = "new"
          /\ inv[i].post = 1
          /\ heap[inv[i].window].resetTime = inv[i].now + config.windowMs

\* C4: every denial reports a strictly positive retry delay, in the body
\* and in the Retry-After header.
C4_RetryAfterPositive ==
    \A i \in Invs :
       Denied(i) =>
          /\ inv[i].response.body.retryAfter > 0
          /\ Number(inv[i].response.headers["Retry-After"]) > 0

\* C5: on every denial the retryAfter of the body and the Retry-After
\* header are the same number r, and r is the ceiling of
\* (resetTime - now) / 1000: 1000 * (r - 1) < resetTime - now <= 1000 * r.
C5_RetryAfterIsCeiling ==
    \A i \in Invs :
       Denied(i) =>
          LET r == inv[i].response.body.retryAfter
              d == inv[i].preReset - inv[i].now
          IN  /\ inv[i].response.status = 429
              /\ Number(inv[i].response.headers["Retry-After"]) = r
              /\ 1000 * (r - 1) < d
              /\ d <= 1000 * r

C5_Witness ==
    \E i \in Invs :
       /\ Denied(i)
       /\ inv[i].preReset - inv[i].now = 500
       /\ inv[i].response.headers["Retry-After"] = <<"1">>

\* C6: every allowed request reports remaining = maxRequests - count, count
\* being the record's count right after this request's own admission.
C6_RemainingIsOwnCount ==
    \A i \in Invs :
       Answered(i) =>
          Number(inv[i].response.headers["X-RateLimit-Remaining"])
             = config.maxRequests - inv[i].post

\* C7: two requests whose (endpointPath, client identity) pairs differ never
\* read or write the same record: a request is decided on a record that a
\* request of its own pair opened.
C7_PairsPartitionRecords ==
    \A i \in Invs :
       HasDecided(i) => windows[inv[i].window].pair = inv[i].pair

\* ---------------------------------------------------------------- routes
\* the work the throttle is to stand in front of
GuardedCalls ==
    {"findUserByEmail", "verifyPassword", "hashPassword", "verifyAccessToken",
     "uploadFileLocally"}

\* `name` is among the first n - 1 calls
Precedes(calls, name, n) == \E m \in 1 .. (n - 1) : calls[m] = name

HasCalled(r, name) == \E n \in 1 .. Len(rq[r].calls) : rq[r].calls[n] = name

\* C8: every login, register and photo upload request passes through the
\* throttle first: the throttle's decision (a call of rateLimit, which leaves
\* a record in the store) precedes the request's first credential lookup,
\* password verification or hashing, token verification and upload.
C8_ThrottleBeforeCredentials ==
    \A r \in RReqs :
       \A n \in 1 .. Len(rq[r].calls) :
          rq[r].calls[n] \in GuardedCalls =>
             /\ Precedes(rq[r].calls, "rateLimit", n)
             /\ DOMAIN rateLimitStore # {}

\* C9: in an accepted photo upload an encrypt step on the file bytes
\* precedes the storage write, and what is in storage is not the uploaded
\* plaintext.
C9_StoredBytesEncrypted ==
    \A r \in RReqs :
       \A n \in 1 .. Len(rq[r].calls) :
          rq[r].calls[n] = "writeFile" =>
             /\ Precedes(rq[r].calls, "encryptFile", n)
             /\ storage[rq[r].publicUrl[1]] # rq[r].file[1].bytes

\* C10: a photo upload request reaches the storage write or the photo record
\* creation only if its accessToken cookie was present and verified to a user
\* id, the owner's quota was not exhausted, a file was present, its declared
\* type is image/jpeg, image/png or image/webp, and its size is at most
\* 5 MiB; an oversize file is answered 400 with no storage call.
C10_UploadOnlyAfterAllChecks ==
    \A r \in RReqs :
       LET me == rq[r]
       IN  /\ (\/ HasCalled(r, "uploadFileLocally")
                \/ HasCalled(r, "writeFile")
                \/ HasCalled(r, "createPortfolioPhoto")) =>
                  /\ me.route = "photo"
                  /\ me.cookie # None
                  /\ me.userId # None
                  /\ me.userId = verifyAccessToken(me.cookie[1])
                  /\ me.canUpload
                  /\ me.file # None
                  /\ me.file[1].type \in {"image/jpeg", "image/png", "image/webp"}
                  /\ me.file[1].size <= 5 * 1024 * 1024
           /\ (me.pc = "done" /\ me.file # None /\ me.file[1].size > 5 * 1024 * 1024) =>
                  /\ me.response.status = 400
                  /\ ~ HasCalled(r, "uploadFileLocally")

C10_Witness ==
    \E r \in RReqs :
       /\ HasCalled(r, "createPortfolioPhoto")
       /\ rq[r].file[1].size = 5 * 1024 * 1024
       /\ rq[r].publicUrl[1] \in DOMAIN storage
       /\ \E q \in RReqs :
             /\ rq[q].pc = "done"
             /\ rq[q].file # None
             /\ rq[q].file[1].size = 5 * 1024 * 1024 + 1
             /\ rq[q].response.status = 400

\* C11: a photo upload of an authenticated user whose quota is exhausted when
\* canUploadMorePhotos answers is rejected with 403 before the form data is
\* read: the file of the request is never looked at, no storage call is made
\* and neither the upload directory nor the photos table changes.
C11_QuotaRejectsWhateverTheFile ==
    [][\A r \in RReqs :
          (/\ rq[r].pc = "canUploadMorePhotos"
           /\ rq'[r].pc # "canUploadMorePhotos"
           /\ ~ canUploadMorePhotos(rq[r].userId[1])
           /\ rq'[r].response # InternalError) =>
             /\ rq'[r].pc = "done"
             /\ rq'[r].response.status = 403
             /\ rq'[r].file = None
             /\ rq'[r].calls = <<"verifyAccessToken", "canUploadMorePhotos">>
             /\ storage' = storage
             /\ photos' = photos]_vars

C11_Witness ==
    \E r \in RReqs :
       /\ rq[r].pc = "done"
       /\ rq[r].response.status = 403
       /\ rq[r].userId # None
       /\ ~ canUploadMorePhotos(rq[r].userId[1])
       /\ BagCardinality(photos) > Cardinality(DOMAIN InitialStorage(MaxPhotos - 1))

\* the users who own photo records
PhotoOwners == {p.userId : p \in BagToSet(photos)}

\* C12: after any sequence and any interleaving of photo upload requests no
\* user owns more than 3 photo records.
C12_AtMostThreePhotos ==
    \A u \in PhotoOwners : BagCardinality(PhotosOf(u)) <= 3

\* the request created a token of either kind
TokensCreated(r) ==
    HasCalled(r, "createAccessToken") \/ HasCalled(r, "createRefreshToken")

\* what the login route has to have seen before it issues tokens
LoginConditions(r) ==
    LET me == rq[r]
    IN  /\ Truthy(me.body.email)
        /\ Truthy(me.body.password)
        /\ me.user # None
        /\ me.user[1].email = me.body.email[1]
        /\ me.user[1].passwordHash # None
        /\ verifyPassword(me.body.password[1], me.user[1].passwordHash[1])
        /\ me.user[1].isActive

LoginDone(r) == rq[r].route = "login" /\ rq[r].pc = "done"

\* C13 (as amended): the login endpoint creates tokens and sets cookies only
\* when email and password are present, the user exists with a password
\* hash, verifyPassword returned true and the user is active; only a 200
\* response carries cookies; a 400, 401 or 403 outcome creates no token; a
\* 500 outcome sets no cookie, and has created tokens only when
\* updateUserLastLogin failed after they were made.
C13_TokensOnlyForVerifiedActiveUser ==
    \A r \in RReqs :
       rq[r].route = "login" =>
          /\ TokensCreated(r) => LoginConditions(r)
          /\ rq[r].response.cookies # {} =>
                /\ rq[r].response.status = 200
                /\ TokensCreated(r)
                /\ LoginConditions(r)
          /\ (rq[r].pc = "done" /\ rq[r].response.status \in {400, 401, 403}) =>
                ~ TokensCreated(r)
          /\ (rq[r].pc = "done" /\ rq[r].response.status = 500 /\ TokensCreated(r)) =>
                rq[r].calls[Len(rq[r].calls)] = "updateUserLastLogin"

C13_Witness ==
    \E r \in RReqs :
       /\ LoginDone(r)
       /\ rq[r].response.status = 200
       /\ Cardinality(rq[r].response.cookies) = 2
       /\ LoginConditions(r)

\* C13 as stated: every 400, 401, 403 and 500 outcome of the login endpoint
\* sets no cookie and creates no token.
C13_NoTokenUnlessSuccess ==
    \A r \in RReqs :
       (LoginDone(r) /\ rq[r].response.status \in {400, 401, 403, 500}) =>
          /\ rq[r].response.cookies = {}
          /\ ~ TokensCreated(r)

\* a login answered 200 or a registration answered 201
Succeeded(r) ==
    /\ rq[r].pc = "done"
    /\ \/ rq[r].route = "login" /\ rq[r].response.status = 200
       \/ rq[r].route = "register" /\ rq[r].response.status = 201

CookiesNamed(r, name) == {c \in rq[r].response.cookies : c.name = name}

\* C14: every successful login (200) and registration (201) sets exactly two
\* cookies, accessToken with max-age 3600 and refreshToken with max-age
\* 604800, both HTTP-only, same-site lax, path '/', and secure if and only
\* if NODE_ENV is 'production'.
C14_TwoCookiesWithFlags ==
    \A r \in RReqs :
       Succeeded(r) =>
          /\ Cardinality(rq[r].response.cookies) = 2
          /\ \E a \in CookiesNamed(r, "accessToken") :
                CookiesNamed(r, "accessToken") = {a} /\ a.maxAge = 3600
          /\ \E f \in CookiesNamed(r, "refreshToken") :
                CookiesNamed(r, "refreshToken") = {f} /\ f.maxAge = 604800
          /\ \A c \in rq[r].response.cookies :
                /\ c.httpOnly
                /\ c.sameSite = "lax"
                /\ c.path = "/"
                /\ c.secure <=> (env.NODE_ENV = "production")

C14_Witness ==
    \E r \in RReqs :
       /\ Succeeded(r)
       /\ rq[r].route = "register"
       /\ env.NODE_ENV = "development"
       /\ users[EmailA].lastLoginAt >= 0
       /\ \A c \in rq[r].response.cookies : ~ c.secure

\* C15: a missing JWT_SECRET is fatal at startup: without it no request is
\* served, so no login or register request is taken up or answered.
C15_NoSecretNoService ==
    ~ env.JWT_SECRET =>
       \A r \in RReqs : rq[r].pc = "idle" /\ rq[r].response = NoRouteResponse

\* the register request has called createUser for `email`
CreateUserCalled(r, email) ==
    /\ rq[r].route = "register"
    /\ HasCalled(r, "createUser")
    /\ rq[r].body.email = Some(email)

\* C16: createUser is called at most once per email, and a register request
\* for an email that already has a user never gets as far as createUser: it
\* is answered 409 and issues no tokens.
C16_CreateUserOncePerEmail ==
    \A r \in RReqs :
       \A email \in {EmailA, EmailN} :
          CreateUserCalled(r, email) =>
             /\ \A q \in RReqs \ {r} : ~ CreateUserCalled(q, email)
             /\ rq[r].pc = "createUser" => email \notin DOMAIN users
             /\ (/\ rq[r].pc = "done"
                 /\ rq[r].response.status # 201
                 /\ email \in DOMAIN users) =>
                   /\ rq[r].response.status = 409
                   /\ ~ TokensCreated(r)

\* C17: no access or refresh token is issued, by register or by login, for
\* a user whose emailVerified is false.
C17_NoTokenBeforeVerification ==
    \A r \in RReqs :
       (TokensCreated(r) \/ rq[r].response.cookies # {}) =>
          /\ rq[r].user # None
          /\ rq[r].user[1].emailVerified

\* the fixed texts of the login and register responses
AuthTexts ==
    {"Email and password are required",
     "Server configuration error. Please contact administrator.",
     "Invalid credentials", "Account is deactivated", "Invalid email format",
     "Password must be at least 5 characters", "User already exists",
     "Internal server error", "Login successful", "User registered successfully."}

\* The value is the submitted password (a value that is absent is not).
IsPassword(r, value) ==
    rq[r].body.password # None /\ value = rq[r].body.password[1]

\* C18: no response of the login or register endpoint carries the submitted
\* plaintext password or the stored password hash: an error response is one
\* fixed text; a success response is a fixed text and a user object with
\* the fields id, email, name and emailVerified only, none of them the
\* password; the cookies hold tokens, whose subject is not the password.
C18_ResponsesHoldNoSecret ==
    \A r \in RReqs :
       rq[r].pc = "done" =>
          LET body == rq[r].response.body
          IN  /\ DOMAIN body \in {{"error"}, {"message", "user"}}
              /\ "error" \in DOMAIN body => body.error \in AuthTexts
              /\ "user" \in DOMAIN body =>
                    /\ body.message \in AuthTexts
                    /\ DOMAIN body.user = {"id", "email", "name", "emailVerified"}
                    /\ ~ IsPassword(r, body.user.id)
                    /\ ~ IsPassword(r, body.user.email)
                    /\ body.user.name # None => ~ IsPassword(r, body.user.name[1])
                    /\ body.user.emailVerified \in BOOLEAN
              /\ \A c \in rq[r].response.cookies :
                    /\ DOMAIN c.value = {"type", "sub", "signed", "expired"}
                    /\ ~ IsPassword(r, c.value.sub)

C18_Witness ==
    \E r \in RReqs :
       /\ Succeeded(r)
       /\ rq[r].route = "register"
       /\ rq[r].response.body.user.email = EmailN
       /\ users[EmailN].passwordHash = Some(hashPassword(PwGood, 2))
       /\ rq[r].response.cookies # {}

\* -------------------------------------------------------------- client key
\* header values: absent, empty, blank, one address, padded, lists
HeaderValues ==
    {None, Some(<<>>), Some(<<" ">>), Some(<<"1">>), Some(<<" ", "1", " ">>),
     Some(<<",", "2">>), Some(<<" ", ",", "2">>), Some(<<"1", ",", " ", "2">>),
     Some(<<"1", " ", "2">>)}

\* requests over every combination of the four inputs of getClientId
HeaderRequests ==
    {[pathname |-> PathA, auth |-> a, forwarded |-> f, realIp |-> p,
      cfConnectingIp |-> c] :
        a \in {None, Some(<<>>), Some(<<"u">>)},
        f \in HeaderValues,
        p \in {None, Some(<<>>), Some(<<"9">>)},
        c \in {None, Some(<<>>), Some(<<"7">>)}}

\* the middleware is called with a request (getUserId pending)
InitClientId ==
    /\ clock = 0
    /\ ticks = 0
    /\ config = [windowMs |-> 500, maxRequests |-> 1]
    /\ rateLimitStore = [k \in {} |-> 0]
    /\ heap = [o \in Refs |-> Free]
    /\ windows = [o \in Refs |-> FreeWindow]
    /\ \E r \in HeaderRequests :
          inv = [i \in Invs |->
                   IF i = 1 THEN [IdleInv EXCEPT !.pc = "getUserId", !.request = r]
                   ELSE IdleInv]
    /\ RoutesIdle
    /\ env = [JWT_SECRET |-> TRUE, NODE_ENV |-> "production"]
    /\ photos = InitialPhotos(0)
    /\ storage = InitialStorage(0)

\* userId, clientId and key of the middleware, and no more of it
DeriveKey(i) ==
    /\ inv[i].pc = "getUserId"
    /\ inv' = [inv EXCEPT ![i] =
                 [inv[i] EXCEPT !.pc = "key",
                                !.userId = inv[i].request.auth,
                                !.key = KeyOf(inv[i].request, inv[i].request.auth)]]
    /\ UNCHANGED <<clock, ticks, config, rateLimitStore, heap, windows>>
    /\ UNCHANGED routeVars

NextClientId == \E i \in Invs : DeriveKey(i)

SpecClientId == InitClientId /\ [][NextClientId]_vars

\* position of the first comma of s, Len(s) + 1 without one
FirstComma(s) ==
    LET commas == {n \in 1 .. Len(s) : s[n] = ","}
    IN  IF commas = {} THEN Len(s) + 1
        ELSE CHOOSE n \in commas : \A k \in commas : n <= k

\* s without the blanks at its ends
Stripped(s) ==
    LET inked == {n \in 1 .. Len(s) : s[n] # " "}
    IN  IF inked = {} THEN <<>>
        ELSE SubSeq(s, CHOOSE n \in inked : \A k \in inked : n <= k,
                       CHOOSE n \in inked : \A k \in inked : n >= k)

\* the first address of an x-forwarded-for header
FirstAddress(s) == Stripped(SubSeq(s, 1, FirstComma(s) - 1))

NonEmpty(opt) == opt # None /\ opt[1] # <<>>

\* the first non-empty source, in the order user identity, first forwarded
\* address, x-real-ip, cf-connecting-ip, 'unknown'
ExpectedClientId(request) ==
    IF NonEmpty(request.auth) THEN UserPrefix \o request.auth[1]
    ELSE IF request.forwarded # None /\ FirstAddress(request.forwarded[1]) # <<>>
    THEN FirstAddress(request.forwarded[1])
    ELSE IF NonEmpty(request.realIp) THEN request.realIp[1]
    ELSE IF NonEmpty(request.cfConnectingIp) THEN request.cfConnectingIp[1]
    ELSE Unknown

\* C19: the client key is the first non-empty source in the order user
\* identity, first address of x-forwarded-for, x-real-ip, cf-connecting-ip,
\* 'unknown', for every combination of present, absent and empty inputs.
C19_ClientIdByPrecedence ==
    \A i \in Invs :
       inv[i].pc = "key" =>
          inv[i].key = inv[i].request.pathname \o <<":">>
                          \o ExpectedClientId(inv[i].request)

C19_Witness ==
    \E i \in Invs :
       /\ inv[i].pc = "key"
       /\ inv[i].request.auth = Some(<<>>)
       /\ inv[i].request.forwarded = Some(<<" ", ",", "2">>)
       /\ inv[i].request.realIp = Some(<<>>)
       /\ inv[i].request.cfConnectingIp = Some(<<"7">>)
       /\ inv[i].key = PathA \o <<":", "7">>

\* ------------------------------------------------------------- rate limiter
\* the invocation returned a response (it did not reject)
Responded(i) == inv[i].pc = "done" /\ ~ inv[i].thrown

RateLimitHeaders == {"X-RateLimit-Limit", "X-RateLimit-Remaining", "X-RateLimit-Reset"}

\* C20: every response returned through the rate limiter carries
\* X-RateLimit-Limit = maxRequests, X-RateLimit-Remaining and
\* X-RateLimit-Reset = ceil(resetTime / 1000) of the window the request was
\* decided on; it has status 429 and a Retry-After header if and only if the
\* request was denied, and a denied response reports X-RateLimit-Remaining 0.
C20_RateLimitHeadersOnEveryResponse ==
    \A i \in Invs :
       Responded(i) =>
          LET headers == inv[i].response.headers
              resetTime == heap[inv[i].window].resetTime
              reset == Number(headers["X-RateLimit-Reset"])
          IN  /\ RateLimitHeaders \subseteq DOMAIN headers
              /\ Number(headers["X-RateLimit-Limit"]) = config.maxRequests
              /\ Number(headers["X-RateLimit-Remaining"]) \in 0 .. config.maxRequests
              /\ 1000 * (reset - 1) < resetTime
              /\ resetTime <= 1000 * reset
              /\ inv[i].response.status = 429 <=> Denied(i)
              /\ "Retry-After" \in DOMAIN headers <=> Denied(i)
              /\ Denied(i) => headers["X-RateLimit-Remaining"] = <<"0">>

C20_Witness ==
    \E i \in Invs :
       /\ Denied(i)
       /\ heap[inv[i].window].resetTime = 1001
       /\ inv[i].response.headers["X-RateLimit-Reset"] = <<"2">>
       /\ inv[i].response.headers["X-RateLimit-Limit"] = <<"3">>
       /\ \E j \in Invs : inv[j].pc = "handler" /\ inv[j].window = inv[i].window

\* invocation i is admitted in this step on branch `branch` for key k
AdmittedNow(i, k, branch) ==
    /\ inv[i].pc = "getUserId"
    /\ inv'[i].pc = "handler"
    /\ inv'[i].key = k
    /\ inv'[i].branch = branch

\* C21: for every key of the store, from one state to the next the record
\* either is unchanged, or keeps its resetTime and has its count raised by
\* exactly 1 by a request allowed in that step, or is replaced as a whole by
\* {count: 1, resetTime: now + windowMs} by a request that found its window
\* expired, or is removed when its window has expired.
C21_RecordChangesOnlyByAdmission ==
    [][\A k \in DOMAIN rateLimitStore :
          LET old == heap[rateLimitStore[k]]
          IN  IF k \in DOMAIN rateLimitStore'
              THEN LET new == heap'[rateLimitStore'[k]]
                   IN  \/ new = old
                       \/ /\ new.resetTime = old.resetTime
                          /\ new.count = old.count + 1
                          /\ clock <= old.resetTime
                          /\ \E i \in Invs : AdmittedNow(i, k, "incr")
                       \/ /\ new.count = 1
                          /\ new.resetTime = clock + config.windowMs
                          /\ clock >= old.resetTime
                          /\ \E i \in Invs : AdmittedNow(i, k, "new")
              ELSE clock' >= old.resetTime]_vars

C21_Witness ==
    \E i \in Invs :
       /\ inv[i].pc = "handler"
       /\ inv[i].branch = "new"
       /\ inv[i].preReset >= 0
       /\ heap[rateLimitStore[inv[i].key]].count = 1
       /\ heap[rateLimitStore[inv[i].key]].resetTime = inv[i].now + config.windowMs
       /\ inv[i].now > inv[i].preReset

\* ------------------------------------------------------------------ tokens
\* C22: a refresh token is not accepted as an access token, nor an access
\* token as a refresh token; a photo upload whose accessToken cookie holds a
\* signed, unexpired refresh token is answered 401 at once: it gets no user
\* id and calls nothing after verifyAccessToken.
C22_TokenTypesNotConfused ==
    /\ \A e \in DOMAIN users :
          /\ verifyAccessToken(createRefreshToken(users[e].id)) = None
          /\ verifyRefreshToken(
                createAccessToken(users[e].id, users[e].email, users[e].role)) = None
          /\ verifyAccessToken(
                createAccessToken(users[e].id, users[e].email, users[e].role))
                = Some(users[e].id)
    /\ \A r \in RReqs :
          (/\ rq[r].route = "photo"
           /\ rq[r].cookie # None
           /\ rq[r].cookie[1].type # "access") =>
             /\ rq[r].pc = "done"
             /\ rq[r].response.status = 401
             /\ rq[r].userId = None
             /\ rq[r].calls = <<"verifyAccessToken">>

C22_Witness ==
    \E r \in RReqs :
       /\ rq[r].pc = "done"
       /\ rq[r].cookie = Some(createRefreshToken(<<"a">>))
       /\ rq[r].response = ErrorJson("Invalid or expired token", 401)
       /\ \E q \in RReqs : rq[q].pc = "uploadFileLocally"


\* ------------------------------------------------ uploadFileLocally by itself
\* file names a client can send: plain, without extension, hidden, with
\* several dots, with directories, climbing out of the directory, ending in
\* a separator
UploadNames ==
    {<<"m", ".", "p">>, <<"m">>, <<".", "h">>, <<"m", ".", "j", ".", "p">>,
     <<".", ".", "/", "x", ".", "p">>, <<"a", ".", "b", "/", "c">>,
     <<"x", ".", "p", "/">>, <<".", ".">>, <<"/", ".", ".", "/", ".", ".", "/", "e", ".", "s">>}

UploadKinds == {"photo", "resume"}

\* a caller that has the file in hand and is about to store it
Storing(fileName, type) ==
    [IdleRq EXCEPT !.pc = "uploadFileLocally", !.route = type,
                   !.userId = Some(<<"a">>), !.canUpload = TRUE,
                   !.file = Some([name |-> fileName, type |-> "image/png",
                                  size |-> Len(PhotoBytes), bytes |-> PhotoBytes]),
                   !.fileBuffer = PhotoBytes]

\* uploadFileLocally(fileBuffer, fileName, userId, type) as a whole
UploadFileLocally(r, randomId) ==
    /\ rq[r].pc = "uploadFileLocally"
    /\ LET timestamp == clock
           uniqueFileName ==
               UniqueFileName(rq[r].file[1].name, rq[r].userId[1], timestamp, randomId)
           publicUrl == PublicUrl(rq[r].route, uniqueFileName)
       IN  /\ storage' = (publicUrl :> Written(rq[r].fileBuffer)) @@ storage
           /\ rq' = [rq EXCEPT ![r] = [@ EXCEPT !.pc = "stored",
                                                !.publicUrl = Some(publicUrl),
                                                !.calls = Append(@, "writeFile")]]
    /\ UNCHANGED <<clock, ticks, env, users, photos>>
    /\ UNCHANGED throttleVars

NextStorage ==
    \/ \E d \in TickSteps : Tick(d)
    \/ \E r \in RReqs, randomId \in RandomIds : UploadFileLocally(r, randomId)

\* the same owner sends the same file name, as a photo or as a resume, once
\* per caller
InitStorage ==
    /\ ThrottleIdle
    /\ config = [windowMs |-> 500, maxRequests |-> 1]
    /\ env = [JWT_SECRET |-> TRUE, NODE_ENV |-> "production"]
    /\ users = InitialUsers
    /\ photos = InitialPhotos(0)
    /\ storage = InitialStorage(0)
    /\ \E fileName \in UploadNames, type \in UploadKinds :
          rq = [r \in RReqs |-> Storing(fileName, type)]

SpecStorage == InitStorage /\ [][NextStorage]_vars

\* the values Date.now() has had so far
Timestamps == {n * d : n \in 0 .. ticks, d \in TickSteps}

HasSeparator(s) == \E n \in 1 .. Len(s) : s[n] = "/"

RateLimitPresetsUploadPerDay ==
    [auth |-> [windowMs |-> 15 * 60 * 1000, maxRequests |-> 5],
     api |-> [windowMs |-> 15 * 60 * 1000, maxRequests |-> 100],
     upload |-> [windowMs |-> 24 * 60 * 60 * 1000, maxRequests |-> 10],
     deploy |-> [windowMs |-> 24 * 60 * 60 * 1000, maxRequests |-> 5],
     admin |-> [windowMs |-> 60 * 60 * 1000, maxRequests |-> 50]]

RateLimitPresets ==
    [auth |-> [windowMs |-> 15 * 60 * 1000, maxRequests |-> 5],
     api |-> [windowMs |-> 15 * 60 * 1000, maxRequests |-> 100],
     upload |-> [windowMs |-> 60 * 60 * 1000, maxRequests |-> 10],
     deploy |-> [windowMs |-> 24 * 60 * 60 * 1000, maxRequests |-> 5],
     admin |-> [windowMs |-> 60 * 60 * 1000, maxRequests |-> 50]]

\* createRateLimiter(preset, getUserId): the config rateLimit is called with
createRateLimiter(preset) == RateLimitPresets[preset]

InitPreset ==
    /\ ThrottleIdle
    /\ \E preset \in DOMAIN RateLimitPresets : config = createRateLimiter(preset)
    /\ RoutesIdle
    /\ env = [JWT_SECRET |-> TRUE, NODE_ENV |-> "production"]
    /\ photos = InitialPhotos(0)
    /\ storage = InitialStorage(0)

\* time passes by a little more than half a window
PresetTick == Tick(config.windowMs \div 2 + 1)

\* one client calls one endpoint again and again, one request after another
NextPreset ==
    \/ PresetTick
    \/ \E i \in Invs : StartSeq(i, ReqIp)
    \/ \E i \in Invs, sweep \in BOOLEAN, lag \in {0, 1} : NewWindow(i, sweep, lag)
    \/ \E i \in Invs, sweep \in BOOLEAN, lag \in {0, 1} : Deny(i, sweep, lag)
    \/ \E i \in Invs, sweep \in BOOLEAN, lag \in {0, 1} : Increment(i, sweep, lag)
    \/ \E i \in Invs : HandlerReturn(i)
    \/ \E i \in Invs : HandlerThrow(i)
    \/ \E i \in Invs : Return(i)

SpecPreset == InitPreset /\ [][NextPreset]_vars

\* the limits as they are documented, in requests and milliseconds
DocumentedLimits ==
    [auth |-> [windowMs |-> 900000, maxRequests |-> 5],
     api |-> [windowMs |-> 900000, maxRequests |-> 100],
     upload |-> [windowMs |-> 3600000, maxRequests |-> 10],
     deploy |-> [windowMs |-> 86400000, maxRequests |-> 5],
     admin |-> [windowMs |-> 3600000, maxRequests |-> 50]]

\* C24: a limiter made by createRateLimiter(preset) works with the documented
\* limit and window of that preset (auth 5 / 900000 ms, api 100 / 900000 ms,
\* upload 10 / 3600000 ms, deploy 5 / 86400000 ms, admin 50 / 3600000 ms) and
\* decides as rateLimit does with that config: a request is admitted exactly
\* while its window has admitted fewer requests than the documented limit, a
\* new window ends the documented time after the request that opened it, and
\* every response names the documented limit.
C24_PresetsAsDocumented ==
    /\ DOMAIN RateLimitPresets = DOMAIN DocumentedLimits
    /\ \A preset \in DOMAIN RateLimitPresets :
           createRateLimiter(preset) = DocumentedLimits[preset]
    /\ \E preset \in DOMAIN DocumentedLimits :
          LET documented == DocumentedLimits[preset]
          IN  /\ config = createRateLimiter(preset)
              /\ \A o \in Refs : Len(windows[o].admits) <= documented.maxRequests
              /\ \A i \in Invs :
                    /\ HasDecided(i) =>
                          (Allowed(i) <=> inv[i].admittedBefore < documented.maxRequests)
                    /\ (HasDecided(i) /\ inv[i].branch = "new" /\ inv[i].pc = "handler") =>
                          heap[inv[i].window].resetTime = inv[i].now + documented.windowMs
                    /\ (Denied(i) \/ Answered(i)) =>
                          inv[i].response.headers["X-RateLimit-Limit"]
                              = String(documented.maxRequests)

\* the api limiter denies the 101st request of a window
C24_Witness ==
    \E i \in Invs :
       /\ Denied(i)
       /\ config = createRateLimiter("api")
       /\ inv[i].admittedBefore = 100
       /\ inv[i].response.status = 429
       /\ clock > 0


\* the path the limit check takes for the record read (0 for undefined) at
\* the reading `now` of the clock
BranchOf(record, now) ==
    IF record = 0 THEN "new"
    ELSE IF WindowExpired(now, heap[record]) THEN "new"
    ELSE IF LimitExceeded(heap[record]) THEN "deny"
    ELSE "incr"

\* invocation i passes the limit check in this step
DecidesNow(i) == inv[i].pc = "getUserId" /\ inv'[i].pc \in {"handler", "done"}

\* readings of the clock a later request can make
LaterReadings(now) == {now + d : d \in {0, 1} \cup TickSteps}

\* key k has lost its record in this step; the record was expired for every
\* later reading of the clock, which then decides as without a record
SweptUnseen(k) ==
    /\ k \notin DOMAIN rateLimitStore'
    /\ \A t \in LaterReadings(clock') :
          /\ t > heap[rateLimitStore[k]].resetTime
          /\ BranchOf(rateLimitStore[k], t) = BranchOf(0, t)

\* C25: whether or not the sweep runs in a request, the request is decided
\* from the record it read and its own clock reading alone, with the same
\* remaining, resetTime and retryAfter; the record of its key is afterwards
\* what the decision made it; and a record the sweep took away, the one just
\* read included, had expired for every later clock reading, for which a
\* request decides as it does on a missing record.  A record object an
\* admitted request still holds is not changed by a sweep.
C25_SweepInvisible ==
    [][\A i \in Invs :
          DecidesNow(i) =>
             LET key == KeyOf(inv[i].request, inv[i].request.auth)
                 record == StoreGet(key)
                 now == clock
                 branch == BranchOf(record, now)
             IN  /\ inv'[i].branch = branch
                 /\ inv'[i].now = now
                 /\ branch = "new" =>
                       /\ key \in DOMAIN rateLimitStore'
                       /\ heap'[rateLimitStore'[key]]
                             = [count |-> 1, resetTime |-> now + config.windowMs]
                       /\ inv'[i].window = rateLimitStore'[key]
                 /\ branch = "incr" =>
                       /\ key \in DOMAIN rateLimitStore'
                       /\ rateLimitStore'[key] = record
                       /\ inv'[i].record = record
                       /\ heap'[record] = [heap[record] EXCEPT !.count = @ + 1]
                 /\ branch = "deny" =>
                       /\ inv'[i].response = TooManyRequests(heap[record], now)
                       /\ heap'[record] = heap[record] \/ record \notin Roots(rateLimitStore', inv')
                       /\ IF key \in DOMAIN rateLimitStore'
                          THEN rateLimitStore'[key] = record
                          ELSE SweptUnseen(key)
                 /\ \A k \in DOMAIN rateLimitStore \ {key} :
                       IF k \in DOMAIN rateLimitStore'
                       THEN /\ rateLimitStore'[k] = rateLimitStore[k]
                            /\ heap'[rateLimitStore'[k]] = heap[rateLimitStore[k]]
                       ELSE SweptUnseen(k)
                 /\ \A j \in Invs \ {i} :
                       inv[j].pc = "handler" =>
                          /\ inv'[j] = inv[j]
                          /\ inv[j].record # 0 =>
                                (heap'[inv[j].record] = heap[inv[j].record]
                                   \/ (branch = "incr" /\ inv[j].record = record))]_vars

\* a request is denied at the last instant of its window and the sweep, a
\* moment later, takes the record it has just read; the record of another
\* key is still in the store
C25_Witness ==
    \E i \in Invs :
       /\ Denied(i)
       /\ inv[i].key \notin DOMAIN rateLimitStore
       /\ inv[i].now = inv[i].preReset
       /\ clock > inv[i].now
       /\ inv[i].response.status = 429
       /\ DOMAIN rateLimitStore # {}


\* ------------------------------------------- continuing traffic with sweeps
\* a request in which Math.random() < 0.01 held
SweepStep ==
    \E i \in Invs, lag \in {0, 1} :
        \/ NewWindow(i, TRUE, lag)
        \/ Deny(i, TRUE, lag)
        \/ Increment(i, TRUE, lag)

\* the traffic goes on: a request arrives, its handler settles, its response
\* is handed over
TrafficStep ==
    \/ \E i \in Invs, r \in Requests : StartSeq(i, r)
    \/ \E i \in Invs : HandlerReturn(i) \/ HandlerThrow(i)
    \/ \E i \in Invs : Return(i)

\* Requests keep arriving and being served, and of the infinitely many
\* requests infinitely many draw a random number below 0.01.
SpecSweepFair ==
    /\ Init
    /\ [][NextSeq]_vars
    /\ WF_vars(TrafficStep)
    /\ SF_vars(SweepStep)

\* the record of key k has expired: a sweep reading the clock now deletes it
ExpiredInStore(k) ==
    /\ k \in DOMAIN rateLimitStore
    /\ WindowExpired(clock, heap[rateLimitStore[k]])

\* C26: the store never holds more than one record for a key and holds
\* records of requested keys only; and with requests that keep arriving and
\* sweeps that happen again and again, a record whose window has expired is
\* eventually deleted or replaced by a record of a running window.
C26_ExpiredRecordsGoAway ==
    /\ [](/\ DOMAIN rateLimitStore \subseteq Keys
          /\ \A k1, k2 \in DOMAIN rateLimitStore :
                k1 # k2 => rateLimitStore[k1] # rateLimitStore[k2]
          /\ Cardinality({o \in Refs : heap[o] # Free})
                <= Cardinality(DOMAIN rateLimitStore) + NInv)
    /\ \A k \in Keys : ExpiredInStore(k) ~> ~ ExpiredInStore(k)

\* the store is empty again after a record was swept whose window ended
\* while the request that read it was being denied
C26_Witness ==
    \E i \in Invs :
       /\ Denied(i)
       /\ DOMAIN rateLimitStore = {}
       /\ heap[inv[i].record].resetTime < clock
       /\ heap[inv[i].record].count >= config.maxRequests


\* the login request r was answered on its credentials and they did not
\* authenticate: no such user, no password hash, a wrong password or a
\* deactivated account
AuthenticationFailed(r) ==
    LET me == rq[r]
    IN  /\ LoginDone(r)
        /\ Truthy(me.body.email)
        /\ Truthy(me.body.password)
        /\ me.response.status \notin {200, 500}
        /\ IF me.user = None THEN TRUE
           ELSE IF me.user[1].passwordHash = None THEN TRUE
           ELSE IF ~ verifyPassword(me.body.password[1], me.user[1].passwordHash[1]) THEN TRUE
           ELSE ~ me.user[1].isActive

\* C27: every login that fails authentication is answered 401 'Invalid
\* credentials', whether the email is unknown, the user has no password
\* hash, the password is wrong or the account is deactivated; so the answer
\* for a deactivated account is the same with the right and with a wrong
\* password.
C27_LoginFailuresIndistinguishable ==
    \A r \in RReqs :
       AuthenticationFailed(r) =>
          rq[r].response = ErrorJson("Invalid credentials", 401)


\* invocation i is denied in this step
DeniedNow(i) == DecidesNow(i) /\ inv'[i].branch = "deny"

\* the record of key k is in this step neither changed nor taken away
RecordKept(k) ==
    /\ k \in DOMAIN rateLimitStore'
    /\ rateLimitStore'[k] = rateLimitStore[k]
    /\ heap'[rateLimitStore'[k]] = heap[rateLimitStore[k]]

\* the wrapped handler is called for invocation i in this step
HandlerCalledNow(i) == inv[i].pc # "handler" /\ inv'[i].pc = "handler"

\* C28 (as amended): a denied request calls no handler and changes the count
\* and the resetTime of no record, its own key's included; the one effect it
\* can have on the store is that the sweep it may run deletes records whose
\* window has expired.  An allowed request calls the handler exactly once:
\* the handler is called in the step that admits the request and in no other
\* step, and every request answered without a handler call is a denied one.
C28_DenialChangesNoRecord ==
    [][\A i \in Invs :
          /\ DeniedNow(i) =>
                /\ inv'[i].pc = "done"
                /\ inv'[i].response.status = 429
                /\ DOMAIN rateLimitStore' \subseteq DOMAIN rateLimitStore
                /\ \A k \in DOMAIN rateLimitStore :
                      IF RecordKept(k) THEN TRUE
                      ELSE /\ k \notin DOMAIN rateLimitStore'
                           /\ clock' > heap[rateLimitStore[k]].resetTime
                /\ heap'[inv'[i].record] = heap[inv'[i].record]
                      \/ inv'[i].record \notin Roots(rateLimitStore', inv')
          /\ HandlerCalledNow(i) =>
                /\ inv[i].pc = "getUserId"
                /\ inv'[i].branch \in {"new", "incr"}
          /\ (DecidesNow(i) /\ inv'[i].branch \in {"new", "incr"}) => HandlerCalledNow(i)
          /\ inv[i].pc = "handler" => inv'[i].pc \in {"handler", "done"}
          /\ (inv[i].pc = "getUserId" /\ inv'[i].pc = "done") => DeniedNow(i)]_vars

\* the fourth request of a window of three is denied and the window is as
\* it was
C28_Witness ==
    \E i \in Invs :
       /\ Denied(i)
       /\ inv[i].key \in DOMAIN rateLimitStore
       /\ rateLimitStore[inv[i].key] = inv[i].record
       /\ heap[inv[i].record] = [count |-> 3, resetTime |-> inv[i].preReset]
       /\ inv[i].pre = 3

\* C28 as stated: a denied request has no effect on the throttle state and
\* calls no handler.
C28_DenialHasNoEffect ==
    [][\A i \in Invs :
          DeniedNow(i) =>
             /\ inv'[i].pc = "done"
             /\ \A k \in DOMAIN rateLimitStore : RecordKept(k)]_vars


\* the files of the upload directory that no photo record names
OrphanFiles == DOMAIN storage \ {p.photoUrl : p \in BagToSet(photos)}

\* C29: a photo upload that is answered with an error has left no file in
\* storage, and whenever no upload is being served every stored file has a
\* photo record.
C29_FailedUploadLeavesNothing ==
    /\ \A r \in RReqs :
          (rq[r].route = "photo" /\ rq[r].pc = "done" /\ rq[r].response.status # 201) =>
             (rq[r].publicUrl = None \/ rq[r].publicUrl[1] \notin DOMAIN storage)
    /\ (\A r \in RReqs : ~ Serving(r)) => OrphanFiles = {}


\* the handler of invocation i rejects in this step
ThrowsNow(i) == inv[i].pc = "handler" /\ inv'[i].pc = "done" /\ inv'[i].thrown

\* C30: an admitted request has its slot in the record before its handler
\* runs; when the handler throws or rejects, the store and every record stay
\* as they are, the caller gets the rejection and no response of the
\* middleware's; and every request is decided on a count that is the number
\* of requests the window has admitted, whatever became of their handlers.
C30_SlotKeptWhenHandlerThrows ==
    [][\A i \in Invs :
          /\ HandlerCalledNow(i) =>
                /\ inv'[i].key \in DOMAIN rateLimitStore'
                /\ rateLimitStore'[inv'[i].key] = inv'[i].window
                /\ heap'[inv'[i].window].count = inv'[i].pre + 1
                      \/ (inv'[i].branch = "new" /\ heap'[inv'[i].window].count = 1)
                /\ Len(windows'[inv'[i].window].admits) = heap'[inv'[i].window].count
          /\ ThrowsNow(i) =>
                /\ rateLimitStore' = rateLimitStore
                /\ heap' = heap
                /\ windows' = windows
                /\ heap'[inv'[i].window].count >= inv'[i].post
                /\ inv'[i].response = NoResponse
                /\ inv'[i] = [inv[i] EXCEPT !.pc = "done", !.thrown = TRUE]
          /\ (DecidesNow(i) /\ inv'[i].record # 0 /\ inv'[i].branch # "new") =>
                /\ inv'[i].pre = Len(windows[inv'[i].record].admits)
                /\ inv'[i].pre = inv'[i].admittedBefore
                /\ (inv'[i].branch = "deny") <=> (inv'[i].pre >= config.maxRequests)]_vars

\* the handler of the second request of a window has thrown; the record
\* still counts two requests, and another request, admitted after it, is
\* being handled
C30_Witness ==
    \E i, j \in Invs :
       /\ inv[i].pc = "done" /\ inv[i].thrown
       /\ inv[i].post = 2
       /\ inv[i].key \in DOMAIN rateLimitStore
       /\ rateLimitStore[inv[i].key] = inv[i].window
       /\ heap[inv[i].window].count = 3
       /\ inv[j].pc = "handler" /\ inv[j].pre = 2 /\ inv[j].window = inv[i].window

====
